---- MODULE Spec2Model ----
(***************************************************************************)
(* A model of src/JDBCDriver.js: the driver facade (constructor, query,    *)
(* withConnection, queryPromised, executeStatement) over a generic-pool    *)
(* connection pool and a native (Java) statement layer.                    *)
(*                                                                         *)
(* Every call (query or withConnection) is a cooperative task; an action   *)
(* is one run-to-completion step of a task, i.e. the code between two      *)
(* awaits.  The pool is the generic-pool library: its hooks and options    *)
(* are in the source, its scheduling is modelled from the specification.   *)
(* release() of the facade is a task of its own: drain, then clear.        *)
(***************************************************************************)
EXTENDS Integers, Sequences, FiniteSets, TLC

\* ------------------------------------------------------------------ bounds
NQ == 2           \* calls (query / withConnection) started in one run
MaxConns == 2     \* physical connections the model tells apart in one run
MaxCancels == 1   \* cancel() calls made in one run

Calls == 1..NQ
ConnIds == 1..MaxConns

\* ---------------------------------------------------------------- numbers
\* A JavaScript Number that holds an integer, NaN or an infinity: the sign and
\* the decimal digits of its exact value, most significant first and without
\* leading zeros (zero has none).  Every Number is a double, so its exact
\* value has at most MantissaBits significant bits.
MantissaBits == 53
\* A magnitude of 2^MaxExponent or more is no double: it is Infinity.
MaxExponent == 1024
Finite(negative, digits) == [kind |-> "finite", negative |-> negative, digits |-> digits]
NaN == [kind |-> "NaN", negative |-> FALSE, digits |-> <<>>]
Infinity(negative) == [kind |-> "Infinity", negative |-> negative, digits |-> <<>>]

Last(d) == d[Len(d)]
\* The least element of a non-empty set of indices, and the greatest.
Least(S) == CHOOSE i \in S : \A j \in S : i <= j
Greatest(S) == CHOOSE i \in S : \A j \in S : j <= i

RECURSIVE NatDigits(_)
NatDigits(n) ==
  IF n = 0 THEN <<>>
  ELSE IF n < 10 THEN <<n>>
  ELSE Append(NatDigits(n \div 10), n % 10)
\* The Number of a small integer written in the source or counted by the
\* model; those of one digit are tabulated.
Digit == [n \in 0..9 |-> Finite(FALSE, NatDigits(n))]
Num(n) ==
  IF n \in DOMAIN Digit THEN Digit[n]
  ELSE IF n < 0 THEN Finite(TRUE, NatDigits(0 - n)) ELSE Finite(FALSE, NatDigits(n))

StripZeros(d) ==
  LET nonzero == {i \in 1..Len(d) : d[i] # 0}
  IN IF nonzero = {} THEN <<>> ELSE SubSeq(d, Least(nonzero), Len(d))

\* d1 < d2 for two digit sequences without leading zeros.
DigitsLess(d1, d2) ==
  IF Len(d1) # Len(d2) THEN Len(d1) < Len(d2)
  ELSE IF d1 = d2 THEN FALSE
  ELSE LET k == Least({i \in 1..Len(d1) : d1[i] # d2[i]})
       IN d1[k] < d2[k]

\* a < b on Numbers: false when either is NaN; -0 and 0 are equal.
IsZero(a) == a.kind = "finite" /\ a.digits = <<>>
MagnitudeLess(a, b) ==
  IF a.kind = "Infinity" THEN FALSE
  ELSE IF b.kind = "Infinity" THEN TRUE
  ELSE DigitsLess(a.digits, b.digits)
NumLess(a, b) ==
  /\ a.kind # "NaN" /\ b.kind # "NaN"
  /\ IF a.negative /\ ~IsZero(a)
     THEN ~(b.negative /\ ~IsZero(b)) \/ MagnitudeLess(b, a)
     ELSE ~(b.negative /\ ~IsZero(b)) /\ MagnitudeLess(a, b)

\* 0 < a.
Positive(a) == a.kind # "NaN" /\ ~a.negative /\ ~IsZero(a)

\* A Number is falsy when it is NaN, 0 or -0.
NumFalsy(a) == a.kind = "NaN" \/ (a.kind = "finite" /\ a.digits = <<>>)

\* The digits of d \div 2: each digit with the remainder its left neighbour
\* leaves; a leading 1 leaves no digit.
Halve(d) ==
  LET full == [i \in 1..Len(d) |->
                 (10 * (IF i = 1 THEN 0 ELSE d[i - 1] % 2) + d[i]) \div 2]
  IN IF d = <<>> THEN <<>>
     ELSE SubSeq(full, IF d[1] = 1 THEN 2 ELSE 1, Len(d))
Halve2(d) == Halve(Halve(d))
Halve4(d) == Halve2(Halve2(d))
Halve8(d) == Halve4(Halve4(d))
Halve16(d) == Halve8(Halve8(d))
Halve32(d) == Halve16(Halve16(d))

\* The digits of 2 * d: each digit with the carry its right neighbour gives.
Twice(d) ==
  LET n == Len(d)
      low == [i \in 1..n |->
                (2 * d[i] + (IF i < n /\ d[i + 1] >= 5 THEN 1 ELSE 0)) % 10]
  IN IF d = <<>> THEN <<>>
     ELSE (IF d[1] >= 5 THEN <<1>> ELSE <<>>) \o SubSeq(low, 1, n)
Twice2(d) == Twice(Twice(d))
Twice4(d) == Twice2(Twice2(d))
Twice8(d) == Twice4(Twice4(d))
Twice16(d) == Twice8(Twice8(d))
Twice32(d) == Twice16(Twice16(d))

\* The digits of d \div 2^k and of d * 2^k.
RECURSIVE HalveTimes(_, _)
HalveTimes(d, k) ==
  IF k = 0 \/ d = <<>> THEN d
  ELSE IF k >= 32 THEN HalveTimes(Halve32(d), k - 32)
  ELSE HalveTimes(Halve(d), k - 1)
RECURSIVE TwiceTimes(_, _)
TwiceTimes(d, k) ==
  IF k = 0 \/ d = <<>> THEN d
  ELSE IF k >= 32 THEN TwiceTimes(Twice32(d), k - 32)
  ELSE TwiceTimes(Twice(d), k - 1)

\* The number of binary digits of d.
RECURSIVE BitLength(_)
BitLength(d) ==
  IF d = <<>> THEN 0
  ELSE IF Halve32(d) # <<>> THEN 32 + BitLength(Halve32(d))
  ELSE 1 + BitLength(Halve(d))

\* The digits of d + 1.
Succ(d) ==
  LET below9 == {i \in 1..Len(d) : d[i] # 9}
  IN IF below9 = {} THEN <<1>> \o [i \in 1..Len(d) |-> 0]
     ELSE LET k == Greatest(below9)
          IN SubSeq([i \in 1..Len(d) |->
                       IF i < k THEN d[i] ELSE IF i = k THEN d[i] + 1 ELSE 0],
                    1, Len(d))

Odd(d) == d # <<>> /\ Last(d) % 2 = 1

\* The nearest multiple of 2^drop to d, ties to the even multiple.
RoundToNearest(d, drop) ==
  LET low == HalveTimes(d, drop - 1)
      kept == Halve(low)
      half == Odd(low)
      more == TwiceTimes(low, drop - 1) # d
      up == half /\ (more \/ Odd(kept))
  IN TwiceTimes(IF up THEN Succ(kept) ELSE kept, drop)

\* The Number value of the integer with decimal digits d and the given sign:
\* d itself when it has at most MantissaBits binary digits, else d rounded to
\* MantissaBits of them, and Infinity when that takes more than MaxExponent.
NumberValue(negative, d) ==
  LET drop == BitLength(d) - MantissaBits
  IN IF drop <= 0 THEN Finite(negative, d)
     ELSE LET rounded == RoundToNearest(d, drop)
          IN IF BitLength(rounded) > MaxExponent THEN Infinity(negative)
             ELSE Finite(negative, rounded)

\* ------------------------------------------------------- program constants
QueryTimeout == 600   \* statement.setQueryTimeout(600)
DefaultMax == 8       \* max: ... || 8
AcquireTimeoutMillis == 20000   \* acquireTimeoutMillis: 20000
\* A pool that arms no acquire timer, whatever its options say.
AcquireTimerUnset(options) == FALSE
\* The pool arms a timer for every waiting request when the
\* acquireTimeoutMillis it was created with is a positive number; 0 arms none.
AcquireTimerSet(options) == Positive(options["acquireTimeoutMillis"])
\* A pool that hands out idle connections without validating them.
TestOnBorrowOff(options) == FALSE
\* The testOnBorrow the pool was created with.
TestOnBorrow(options) == options["testOnBorrow"]

\* --------------------------------------------------------------- JS values
Undefined == "<undefined>"
NoCause == "<no cause>"
Falsy(v) == v \in {Undefined, ""}
\* a || b
Or(a, b) == IF Falsy(a) THEN b ELSE a

\* Objects are functions from their own keys to values.
EmptyObj == [k \in {} |-> Undefined]
Get(o, k) == IF k \in DOMAIN o THEN o[k] ELSE Undefined
\* { ...base, ...over }: every own key of over wins, whatever its value.
Spread(base, over) ==
  [k \in (DOMAIN base) \cup (DOMAIN over) |->
      IF k \in DOMAIN over THEN over[k] ELSE base[k]]
\* const { poolOptions, ...dbOptions } = obj
Rest(obj, key) == [k \in (DOMAIN obj) \ {key} |-> obj[k]]

\* Values carried by completions and settled promises: row sets and errors.
Val(t, m, c) == [type |-> t, message |-> m, cause |-> c]
RowSet == Val("RowSet", "rows", NoCause)
NoVal == Val("none", "", NoCause)
\* What the native layer can throw: an error object that carries the Java
\* exception as its cause (message "syntax error"), or one with no cause.
NativeErrors ==
  { Val("Native", "wrapped native failure", "syntax error"),
    Val("Native", "native failure", NoCause) }
TimeoutError == Val("TimeoutError", "ResourceRequest timed out", NoCause)
\* pool.acquire() on a pool that is shutting down.
DrainingError == Val("Error", "pool is draining and cannot accept work", NoCause)
\* Object.entries(undefined)
EntriesTypeError == Val("TypeError", "Cannot convert undefined or null to object", NoCause)
\* DriverManager.getConnection failed: the Java exception is the cause.
ConnectError == Val("Native", "wrapped native failure", "connection refused")
FnError == Val("Error", "fn failed", NoCause)

Return(v) == [type |-> "return", value |-> v]
Throw(v) == [type |-> "throw", value |-> v]
NoCompletion == [type |-> "none", value |-> NoVal]

\* The values prepareConnectionQueries can hold: an array of statements,
\* undefined, or the empty string.  Only the array is truthy, also when empty.
Array(items) == [type |-> "array", items |-> items]
JsUndefined == [type |-> "undefined", items |-> <<>>]
EmptyString == [type |-> "string", items |-> <<>>]
Truthy(v) == v.type = "array"

\* ------------------------------------------------------------ type catalog
\* require('./supported-drivers'): dbType -> descriptor.
SupportedDrivers ==
  [mysql |-> [driverClass |-> "cat.Driver",
              jdbcUrl |-> "jdbc:cat",
              properties |-> "cat.props",
              prepareConnectionQueries |-> Array(<<"SET cat">>)]]

\* SupportedDrivers[dbType] reads along the prototype chain: besides the
\* catalog's own entries it finds what every object inherits.
InheritedNames ==
  {"constructor", "toString", "toLocaleString", "valueOf", "hasOwnProperty",
   "isPrototypeOf", "propertyIsEnumerable", "__proto__",
   "__defineGetter__", "__defineSetter__", "__lookupGetter__",
   "__lookupSetter__"}
OwnDescription(dbType) == dbType \in DOMAIN SupportedDrivers
\* dbTypeDescription(dbType) is truthy.
HasDescription(dbType) == OwnDescription(dbType) \/ dbType \in InheritedNames
\* dbTypeDescription && dbTypeDescription.<field>; an inherited member has
\* none of a descriptor's fields.
DescField(dbType, field) ==
  IF OwnDescription(dbType) THEN SupportedDrivers[dbType][field] ELSE Undefined

\* ------------------------------------------------------------- constructor
\* The constructor's argument: null, undefined (argument omitted) or an object.
NullArg == [kind |-> "null", obj |-> EmptyObj]
UndefinedArg == [kind |-> "undefined", obj |-> EmptyObj]
ObjArg(o) == [kind |-> "object", obj |-> o]

\* The value of CUBEJS_DB_MAX_POOL is a string given as the sequence of its
\* UTF-16 code units: "10" is <<49, 48>>, "-1" is <<45, 49>>.
DigitChars == 48..57
DigitValue(ch) == ch - 48
\* What parseInt trims from the front, the WhiteSpace and LineTerminator code
\* points of ECMAScript: TAB, LF, VT, FF, CR, SPACE, NBSP, U+1680,
\* U+2000..U+200A, LS, PS, U+202F, U+205F, U+3000, ZWNBSP.
WhiteSpace ==
  {9, 10, 11, 12, 13, 32, 160, 5760} \cup (8192..8202)
    \cup {8232, 8233, 8239, 8287, 12288, 65279}
SignChars == {43, 45}
MinusChar == 45

\* The first index of s whose code unit is not in S, or Len(s) + 1.
FirstOutside(s, S) ==
  LET outside == {i \in 1..Len(s) : s[i] \notin S}
  IN IF outside = {} THEN Len(s) + 1 ELSE Least(outside)

SkipWhiteSpace(s) == SubSeq(s, FirstOutside(s, WhiteSpace), Len(s))

\* The values of the leading decimal digits of s.
LeadingDigits(s) ==
  SubSeq([i \in 1..Len(s) |-> IF s[i] \in DigitChars THEN DigitValue(s[i]) ELSE 0],
         1, FirstOutside(s, DigitChars) - 1)

\* parseInt(s, 10): leading white space is skipped, a sign is read, then the
\* leading digits; what follows them is ignored.  No digit gives NaN; the
\* integer the digits spell is rounded to the nearest double when it has
\* more than 53 significant bits ("9007199254740993" is 9007199254740992).
ParseInt(s) ==
  LET t == SkipWhiteSpace(s)
      signed == t # <<>> /\ Head(t) \in SignChars
      digits == LeadingDigits(IF signed THEN Tail(t) ELSE t)
  IN IF digits = <<>> THEN NaN
     ELSE NumberValue(signed /\ Head(t) = MinusChar, StripZeros(digits))

\* process.env.CUBEJS_DB_MAX_POOL && parseInt(process.env.CUBEJS_DB_MAX_POOL, 10) || 8
PoolMaxDefault(env) ==
  IF "CUBEJS_DB_MAX_POOL" \notin DOMAIN env THEN Num(DefaultMax)
  ELSE LET e == env["CUBEJS_DB_MAX_POOL"]
       IN IF e = <<>> \/ NumFalsy(ParseInt(e)) THEN Num(DefaultMax) ELSE ParseInt(e)

\* The second argument of createPool: the defaults of lines 64-70 with every
\* own key of config.poolOptions over them.  The three eviction options are
\* carried but the evictor's runs are not followed: no step of the model
\* destroys a connection for having been idle.
PoolOptions(poolOptions, env) ==
  Spread([min |-> Num(0),
          max |-> PoolMaxDefault(env),
          evictionRunIntervalMillis |-> Num(10000),
          softIdleTimeoutMillis |-> Num(30000),
          idleTimeoutMillis |-> Num(30000),
          testOnBorrow |-> TRUE,
          acquireTimeoutMillis |-> Num(AcquireTimeoutMillis)],
         poolOptions)

\* max: ... || 8, ...poolOptions
PoolMaxOption(poolOptions, env) == PoolOptions(poolOptions, env)["max"]

\* The facade after the constructor ran: how it ended, this.config, whether
\* createPool was called and with which options (poolMax is their max).
Driver(outcome, config, pool, options) ==
  [outcome |-> outcome, config |-> config, pool |-> pool,
   poolMax |-> IF "max" \in DOMAIN options THEN options["max"] ELSE Num(0),
   options |-> options]
Unconstructed == Driver("unconstructed", EmptyObj, FALSE, EmptyObj)

\* constructor(config = {})
Constructor(arg, env) ==
  LET config == IF arg.kind = "undefined" THEN ObjArg(EmptyObj) ELSE arg
  IN
  IF config.kind = "null"
  THEN \* config || {} is fine on line 24, config.dbType on line 26 throws
       Driver("TypeError: Cannot read properties of null", EmptyObj, FALSE, EmptyObj)
  ELSE
    LET obj == config.obj
        poolOptions == IF "poolOptions" \in DOMAIN obj THEN obj["poolOptions"] ELSE EmptyObj
        dbOptions == Rest(obj, "poolOptions")
        dbType == Or(Get(obj, "dbType"), Get(env, "CUBEJS_DB_TYPE"))
        \* process.env.CUBEJS_JDBC_URL || dbTypeDescription && dbTypeDescription.jdbcUrl()
        \* calls jdbcUrl, which an inherited member does not have
        callsMissingJdbcUrl ==
          /\ Falsy(Get(env, "CUBEJS_JDBC_URL"))
          /\ HasDescription(dbType) /\ ~OwnDescription(dbType)
        defaults ==
          [dbType |-> Get(env, "CUBEJS_DB_TYPE"),
           url |-> Or(Get(env, "CUBEJS_JDBC_URL"), DescField(dbType, "jdbcUrl")),
           drivername |-> Or(Get(env, "CUBEJS_JDBC_DRIVER"), DescField(dbType, "driverClass")),
           properties |-> DescField(dbType, "properties")]
        merged == Spread(defaults, dbOptions)
    IN IF callsMissingJdbcUrl
       THEN Driver("TypeError: dbTypeDescription.jdbcUrl is not a function",
                   EmptyObj, FALSE, EmptyObj)
       ELSE IF Falsy(merged["drivername"])
       THEN Driver("Error: drivername is required property", merged, FALSE, EmptyObj)
       ELSE IF Falsy(merged["url"])
       THEN Driver("Error: url is required property", merged, FALSE, EmptyObj)
       ELSE Driver("ready", merged, TRUE, PoolOptions(poolOptions, env))

\* prepareConnectionQueries(): this.config.prepareConnectionQueries ||
\* dbTypeDescription && dbTypeDescription.prepareConnectionQueries || [],
\* each chosen by its truthiness.
prepareConnectionQueries(config) ==
  LET own == IF "prepareConnectionQueries" \in DOMAIN config
             THEN config["prepareConnectionQueries"]
             ELSE JsUndefined
      dbType == Get(config, "dbType")
      catalog == IF OwnDescription(dbType)
                 THEN SupportedDrivers[dbType]["prepareConnectionQueries"]
                 ELSE JsUndefined
  IN IF Truthy(own) THEN own
     ELSE IF Truthy(catalog) THEN catalog
     ELSE Array(<<>>)


\* ------------------------------------------------------------ pool hooks
\* A connection slot getConnection has not been called for.
NotOpened == [url |-> Undefined, props |-> 0]
\* getJdbcProperties(): a new Properties object filled from
\* config.properties; Object.entries throws when that is undefined.
getJdbcProperties(config) ==
  IF Get(config, "properties") = Undefined
  THEN Throw(EntriesTypeError)
  ELSE Return(Val("Properties", config["properties"], NoCause))

\* A create hook that builds the properties on every call.
createRebuildsProps(config, props, built, connects) ==
  LET made == getJdbcProperties(config)
  IN IF made.type = "throw"
     THEN [completion |-> made, props |-> props, built |-> built, with |-> NotOpened]
     ELSE IF connects
          THEN [completion |-> Return(Val("Connection", "", NoCause)),
                props |-> built + 1, built |-> built + 1,
                with |-> [url |-> config["url"], props |-> built + 1]]
          ELSE [completion |-> Throw(ConnectError),
                props |-> built + 1, built |-> built + 1, with |-> NotOpened]

\* create: if (!this.jdbcProps) this.jdbcProps = this.getJdbcProperties();
\* return DriverManager.getConnection(this.config.url, this.jdbcProps).
\* props is this.jdbcProps at entry, built counts the Properties objects made
\* so far, connects says whether getConnection succeeds.  The hook has no
\* await: it runs to its return in one step.  The class path set up on its
\* first line touches nothing the facade or the pool keeps and is left out.
create(config, props, built, connects) ==
  LET unset == props = 0
      made == getJdbcProperties(config)
      props1 == IF unset THEN built + 1 ELSE props
      built1 == IF unset THEN built + 1 ELSE built
  IN IF unset /\ made.type = "throw"
     THEN [completion |-> made, props |-> props, built |-> built, with |-> NotOpened]
     ELSE IF connects
          THEN [completion |-> Return(Val("Connection", "", NoCause)),
                props |-> props1, built |-> built1,
                with |-> [url |-> config["url"], props |-> props1]]
          ELSE [completion |-> Throw(ConnectError),
                props |-> props1, built |-> built1, with |-> NotOpened]

\* create: DriverManager.getConnection(url, jdbcProps) opens connection c.
createHook(op, c) == [op EXCEPT ![c] = TRUE]
\* A destroy hook that forgets to close the connection.
destroyNoClose(op, c) == op
\* destroy: connection.close()
destroyHook(op, c) == [op EXCEPT ![c] = FALSE]
\* destroy is an async function with no try: a close() that throws rejects
\* the promise the hook returns.
destroySettles(closeThrows) ==
  [close |-> IF closeThrows THEN "throws" ELSE "returns",
   hook |-> IF closeThrows THEN "rejected" ELSE "fulfilled"]
\* A validate hook whose catch answers true.
validateCatchTrue(probe) == probe # "false"
\* validate: connection.isValid(...), false when the probe throws.
validateHook(probe) == IF probe = "throws" THEN FALSE ELSE probe = "true"

\* What connection.isValid() may do.
Probes == {"true", "false", "throws"}

\* ------------------------------------------------------------------- state
VARIABLES
  input,      \* the constructor's argument and the process environment
  driver,     \* the facade: construction outcome, this.config, pool created, pool options
  kind,       \* per call: "none", "query" or "withConnection"
  pc,         \* per call: where its task is suspended
  conn,       \* per call: the connection pool.acquire resolved with (0: none)
  pending,    \* per call: the completion travelling through try / finally / catch
  result,     \* per call: the settled state of the promise the call produced
  stmts,      \* per call: the native statements it created, in order
  cancelObj,  \* per query: index in stmts of the statement cancelObj.cancel is bound to (0: unset)
  ret,        \* per call: the promise object handed back to the caller
  cancelLog,  \* per query: the caller's cancel() calls and what each did
  releases,   \* per call: number of pool.release calls it made
  health,     \* per call: what the liveness probe of its connection answered when it was borrowed
  poolState,  \* per connection: "absent", "idle", "loaned" or "destroyed" in the pool
  loanedTo,   \* per connection: the call it is loaned to (0: none)
  open,       \* per connection: opened by getConnection and close() not yet called on it
  waiting,    \* the pool's queue of pending acquire requests
  draining,   \* the pool accepts no new acquire requests
  openedWith, \* per connection: the url and the properties object getConnection was given
  jdbcProps,  \* this.jdbcProps: 0 while unset, else the number of the Properties object
  propsBuilt, \* Properties objects getJdbcProperties() has returned so far
  shutdown,   \* where the facade's release() is: "ready" before it is called
  lastValidate, \* the latest validate hook call: the probe's outcome and what the hook returned
  lastDestroy   \* the latest destroy hook call: how close() ended and how the hook's promise settled

callVars == <<kind, pc, conn, pending, result, stmts, cancelObj, ret, cancelLog, releases, health>>
poolVars == <<poolState, loanedTo, open, waiting, draining, openedWith>>
facadeVars == <<jdbcProps, propsBuilt, shutdown>>
hookVars == <<lastValidate, lastDestroy>>
vars == <<input, driver, callVars, poolVars, facadeVars, hookVars>>

NoPromise == [promise |-> "none", props |-> {}]
Unsettled == [state |-> "pending", value |-> NoVal]

InitCalls ==
  /\ kind = [q \in Calls |-> "none"]
  /\ pc = [q \in Calls |-> "init"]
  /\ conn = [q \in Calls |-> 0]
  /\ pending = [q \in Calls |-> NoCompletion]
  /\ result = [q \in Calls |-> Unsettled]
  /\ stmts = [q \in Calls |-> <<>>]
  /\ cancelObj = [q \in Calls |-> 0]
  /\ ret = [q \in Calls |-> NoPromise]
  /\ cancelLog = [q \in Calls |-> <<>>]
  /\ releases = [q \in Calls |-> 0]
  /\ health = [q \in Calls |-> "none"]

NoValidate == [probe |-> "none", returned |-> FALSE]
NoDestroy == [close |-> "none", hook |-> "none"]

\* The pool keeps at least min connections, and never more than max.
PoolMin(options) ==
  IF NumLess(options["max"], options["min"]) THEN options["max"] ELSE options["min"]

\* The connections createPool asks the create hook for before it returns:
\* min of them, as far as the model tells connections apart.
MinimumAtStart(drv) ==
  IF drv.pool
  THEN Cardinality({c \in ConnIds : ~NumLess(PoolMin(drv.options), Num(c))})
  ELSE 0

\* k calls of the create hook in a row, starting with this.jdbcProps unset;
\* connects[i] says whether the i-th getConnection succeeds.
RECURSIVE OpenMinimum(_, _, _)
OpenMinimum(config, k, connects) ==
  IF k = 0
  THEN [props |-> 0, built |-> 0, with |-> <<>>]
  ELSE LET before == OpenMinimum(config, k - 1, connects)
           r == create(config, before.props, before.built, connects[k])
       IN [props |-> r.props, built |-> r.built, with |-> Append(before.with, r.with)]

\* The pool and this.jdbcProps when createPool has returned: with min 0
\* nothing is opened; with a positive min the connections the create hook
\* opened are the pool's idle ones.
PoolAtStart(drv, connects) ==
  LET k == MinimumAtStart(drv)
      made == OpenMinimum(drv.config, k, connects)
      opened(c) == c <= k /\ made.with[c] # NotOpened
  IN [poolState |-> [c \in ConnIds |-> IF opened(c) THEN "idle" ELSE "absent"],
      open |-> [c \in ConnIds |-> opened(c)],
      openedWith |-> [c \in ConnIds |-> IF opened(c) THEN made.with[c] ELSE NotOpened],
      jdbcProps |-> made.props,
      propsBuilt |-> made.built]

\* The pool of the driver as constructed: no request waits, nothing is on loan.
InitPool ==
  /\ loanedTo = [c \in ConnIds |-> 0]
  /\ waiting = <<>>
  /\ draining = FALSE
  /\ \E connects \in [1..MinimumAtStart(driver) -> BOOLEAN] :
       LET start == PoolAtStart(driver, connects)
       IN /\ poolState = start.poolState
          /\ open = start.open
          /\ openedWith = start.openedWith
          /\ jdbcProps = start.jdbcProps
          /\ propsBuilt = start.propsBuilt

\* release() has not been called.
InitFacade == shutdown = "ready"

InitHooks ==
  /\ lastValidate = NoValidate
  /\ lastDestroy = NoDestroy

\* The configurations the runs start from: explicit url, driver, properties
\* and preparatory statements with a pool of one; everything from the
\* environment and the catalog, with a pool of two set by
\* CUBEJS_DB_MAX_POOL; explicit url and driver with no properties, no catalog
\* entry to take them from and prepareConnectionQueries: undefined; a pool
\* of one created with acquireTimeoutMillis: 0; a pool of one created with
\* min: 1 and testOnBorrow: false.
MainInputs ==
  { [arg |-> ObjArg([url |-> "jdbc:cfg", drivername |-> "cfg.Driver",
                     properties |-> "cfg.props",
                     prepareConnectionQueries |-> Array(<<"SET a", "SET b">>),
                     poolOptions |-> [max |-> Num(1)]]),
     env |-> EmptyObj],
    [arg |-> UndefinedArg,
     env |-> [CUBEJS_DB_TYPE |-> "mysql", CUBEJS_DB_MAX_POOL |-> <<50>>]],
    [arg |-> ObjArg([url |-> "jdbc:cfg", drivername |-> "cfg.Driver",
                     prepareConnectionQueries |-> JsUndefined,
                     poolOptions |-> [max |-> Num(1)]]),
     env |-> EmptyObj],
    [arg |-> ObjArg([url |-> "jdbc:cfg", drivername |-> "cfg.Driver",
                     properties |-> "cfg.props",
                     poolOptions |-> [max |-> Num(1), acquireTimeoutMillis |-> Num(0)]]),
     env |-> EmptyObj],
    [arg |-> ObjArg([url |-> "jdbc:cfg", drivername |-> "cfg.Driver",
                     properties |-> "cfg.props",
                     poolOptions |-> [max |-> Num(1), min |-> Num(1), testOnBorrow |-> FALSE]]),
     env |-> EmptyObj] }

\* The state after new JDBCDriver(config) returned.
Init ==
  /\ input \in MainInputs
  /\ driver = Constructor(input.arg, input.env)
  /\ driver.outcome = "ready"
  /\ InitCalls
  /\ InitPool
  /\ InitFacade
  /\ InitHooks

\* ------------------------------------------------------------------ pool
Idle == {c \in ConnIds : poolState[c] = "idle"}
Loaned == {c \in ConnIds : poolState[c] = "loaned"}
Absent == {c \in ConnIds : poolState[c] = "absent"}
OpenConns == {c \in ConnIds : open[c]}
PoolSize == Cardinality(Idle \cup Loaned)

\* The pool wants one more resource when requests outnumber what it can hand
\* out, or when it holds fewer than min (which only a positive min allows)
\* and is not shutting down, and it holds fewer than max.
PoolWantsResource ==
  /\ \/ Len(waiting) > Cardinality(Idle)
     \/ /\ ~draining
        /\ Positive(driver.options["min"])
        /\ NumLess(Num(PoolSize), PoolMin(driver.options))
  /\ NumLess(Num(PoolSize), driver.poolMax)

\* The pool creates a resource it wants.  A create hook that fails fails the
\* first waiting request, if there is one, with the hook's error.
PoolCreate ==
  /\ driver.pool
  /\ Absent # {}
  /\ PoolWantsResource
  /\ \E connects \in BOOLEAN :
       LET c == CHOOSE x \in Absent : \A y \in Absent : x <= y
           r == create(driver.config, jdbcProps, propsBuilt, connects)
       IN /\ jdbcProps' = r.props
          /\ propsBuilt' = r.built
          /\ IF r.completion.type = "return"
             THEN /\ open' = createHook(open, c)
                  /\ poolState' = [poolState EXCEPT ![c] = "idle"]
                  /\ openedWith' = [openedWith EXCEPT ![c] = r.with]
                  /\ UNCHANGED <<waiting, pc, pending>>
             ELSE IF waiting # <<>>
             THEN /\ waiting' = Tail(waiting)
                  /\ pc' = [pc EXCEPT ![Head(waiting)] = "acquireFailed"]
                  /\ pending' = [pending EXCEPT ![Head(waiting)] = r.completion]
                  /\ UNCHANGED <<open, poolState, openedWith>>
             ELSE UNCHANGED <<waiting, pc, pending, open, poolState, openedWith>>
  /\ UNCHANGED <<input, driver, kind, conn, result, stmts, cancelObj, ret, cancelLog,
                 releases, health, loanedTo, draining, shutdown, hookVars>>

\* An idle connection is handed to the first waiting request; with
\* testOnBorrow it is validated first and an invalid one is destroyed instead.
\* Without testOnBorrow the liveness probe is not made.
PoolBorrow(c) ==
  /\ poolState[c] = "idle"
  /\ waiting # <<>>
  /\ \E probe \in Probes :
       IF TestOnBorrow(driver.options) => validateHook(probe)
       THEN LET q == Head(waiting)
            IN /\ poolState' = [poolState EXCEPT ![c] = "loaned"]
               /\ loanedTo' = [loanedTo EXCEPT ![c] = q]
               /\ waiting' = Tail(waiting)
               /\ conn' = [conn EXCEPT ![q] = c]
               /\ pc' = [pc EXCEPT ![q] = "acquired"]
               /\ health' = [health EXCEPT ![q] =
                                 IF TestOnBorrow(driver.options) THEN probe ELSE @]
               /\ UNCHANGED open
       ELSE /\ poolState' = [poolState EXCEPT ![c] = "destroyed"]
            /\ open' = destroyHook(open, c)
            /\ UNCHANGED <<loanedTo, waiting, conn, pc, health>>
  /\ UNCHANGED <<input, driver, kind, pending, result, stmts, cancelObj, ret,
                 cancelLog, releases, draining, openedWith, facadeVars, hookVars>>

Without(s, q) == SelectSeq(s, LAMBDA x : x # q)

\* acquireTimeoutMillis elapsed: the request is rejected with a TimeoutError.
PoolAcquireTimeout(q) ==
  /\ AcquireTimerSet(driver.options)
  /\ pc[q] = "acquiring"
  /\ waiting' = Without(waiting, q)
  /\ pc' = [pc EXCEPT ![q] = "acquireFailed"]
  /\ pending' = [pending EXCEPT ![q] = Throw(TimeoutError)]
  /\ UNCHANGED <<input, driver, kind, conn, result, stmts, cancelObj, ret,
                 cancelLog, releases, health, poolState, loanedTo, open,
                 draining, openedWith, facadeVars, hookVars>>

\* pool.release(c): the loan ends and the connection is idle again.
PoolRelease(c) ==
  /\ poolState' = [poolState EXCEPT ![c] = "idle"]
  /\ loanedTo' = [loanedTo EXCEPT ![c] = 0]

\* The pool keeps no trace of a connection it destroyed, and may open any
\* number of connections one after another: when it wants a resource and
\* every connection the model tells apart has been opened, the slots of the
\* destroyed ones are free for the next.  Only the runs under fair scheduling
\* take this step; the other runs end with MaxConns connections opened.
PoolForget ==
  /\ driver.pool
  /\ Absent = {}
  /\ PoolWantsResource
  /\ \E c \in ConnIds : poolState[c] = "destroyed"
  /\ poolState' = [c \in ConnIds |->
                     IF poolState[c] = "destroyed" THEN "absent" ELSE poolState[c]]
  /\ openedWith' = [c \in ConnIds |->
                      IF poolState[c] = "destroyed" THEN NotOpened ELSE openedWith[c]]
  /\ UNCHANGED <<input, driver, callVars, loanedTo, open, waiting, draining,
                 facadeVars, hookVars>>

\* pool.acquire() by call q: it joins the queue, or is rejected at once when
\* the pool is draining.
PoolAcquire(q) ==
  IF draining
  THEN /\ pc' = [pc EXCEPT ![q] = "acquireFailed"]
       /\ pending' = [pending EXCEPT ![q] = Throw(DrainingError)]
       /\ UNCHANGED waiting
  ELSE /\ pc' = [pc EXCEPT ![q] = "acquiring"]
       /\ waiting' = Append(waiting, q)
       /\ UNCHANGED pending

\* The promise of pool.drain() resolves once no request is waiting and every
\* connection on loan has been returned.
Drained == waiting = <<>> /\ Loaned = {}

\* pool.clear(): every idle connection is destroyed.
PoolClear ==
  /\ poolState' = [c \in ConnIds |-> IF c \in Idle THEN "destroyed" ELSE poolState[c]]
  /\ open' = [c \in ConnIds |-> IF c \in Idle THEN destroyHook(open, c)[c] ELSE open[c]]


\* ------------------------------------------------------------ the facade
\* A promise object and its own properties.
Promise(name, props) == [promise |-> name, props |-> props]
\* promise.cancel = () => ...
AttachCancel(p) == [p EXCEPT !.props = @ \cup {"cancel"}]
\* What an async function hands to its caller for `return v`: a new promise
\* that settles like v; v's own properties are not properties of it.
AsyncFunctionResult(v) == Promise("async", {})

Started(q) == pc[q] # "init"
\* Calls are started in the order of their numbers.
NextToStart(q) == pc[q] = "init" /\ \A p \in Calls : p < q => Started(p)

\* query(query, values): queryPromised runs up to its await of pool.acquire(),
\* then cancel is attached to its promise and the promise is returned.
Query(q) ==
  /\ driver.outcome = "ready"
  /\ NextToStart(q)
  /\ kind' = [kind EXCEPT ![q] = "query"]
  /\ PoolAcquire(q)
  /\ ret' = [ret EXCEPT ![q] = AsyncFunctionResult(AttachCancel(Promise("queryPromised", {})))]
  /\ UNCHANGED <<input, driver, conn, result, stmts, cancelObj, cancelLog,
                 releases, health, poolState, loanedTo, open, draining, openedWith,
                 facadeVars, hookVars>>

\* withConnection(fn), up to its await of pool.acquire().
WithConnection(q) ==
  /\ driver.outcome = "ready"
  /\ NextToStart(q)
  /\ kind' = [kind EXCEPT ![q] = "withConnection"]
  /\ PoolAcquire(q)
  /\ ret' = [ret EXCEPT ![q] = AsyncFunctionResult(NoPromise)]
  /\ UNCHANGED <<input, driver, conn, result, stmts, cancelObj, cancelLog,
                 releases, health, poolState, loanedTo, open, draining, openedWith,
                 facadeVars, hookVars>>

\* The third argument query() passes to queryPromised: the array itself.
QueryOptions(config) == prepareConnectionQueries(config)
\* options.prepareConnectionQueries || []: an array has no such property.
OptionsPrepareConnectionQueries(options) ==
  IF options.type = "object" THEN options.items ELSE <<>>

MainSql == "SELECT 1"
\* The native calls of executeStatement that can throw a native error, and
\* the read of statement.cancel.bind, which throws a TypeError when the
\* statement has no cancel.
NativeFailPoints == {"createStatement", "setQueryTimeout", "executeQuery"}
FailPoints == NativeFailPoints \cup {"bind"}
BindTypeError ==
  Val("TypeError", "Cannot read properties of undefined (reading 'bind')", NoCause)

\* A statement conn.createStatement() returned: no timeout set, nothing
\* executed on it yet.
Statement(c, sql, isMain, holder) ==
  [conn |-> c, sql |-> sql, main |-> isMain, timeout |-> 0, executed |-> FALSE,
   cancels |-> 0, heldBy |-> holder, executions |-> 0, timeoutAtExecute |-> 0]

\* statement.executeQuery(query)
executeQuery(st) ==
  [st EXCEPT !.executed = TRUE, !.executions = @ + 1, !.timeoutAtExecute = st.timeout]

\* An executeStatement that sets the timeout after executeQuery returned.
executeStatementLateTimeout(c, sql, withCancelObj, holder, failAt, err) ==
  LET created == Statement(c, sql, withCancelObj, holder)
      ran == executeQuery(created)
      timed == [ran EXCEPT !.timeout = QueryTimeout]
  IN CASE failAt = "createStatement" ->
            [made |-> <<>>, bound |-> FALSE, completion |-> Throw(err)]
       [] failAt = "bind" /\ withCancelObj ->
            [made |-> <<created>>, bound |-> FALSE, completion |-> Throw(err)]
       [] failAt = "executeQuery" ->
            [made |-> <<ran>>, bound |-> withCancelObj, completion |-> Throw(err)]
       [] failAt = "setQueryTimeout" ->
            [made |-> <<ran>>, bound |-> withCancelObj, completion |-> Throw(err)]
       [] OTHER ->
            [made |-> <<timed>>, bound |-> withCancelObj, completion |-> Return(RowSet)]

\* executeStatement(conn, query, cancelObj), which runs without suspending:
\* the statements it created (none or one), whether cancelObj.cancel was
\* bound to it, and how the call completed.  failAt names the call that
\* throws err, if any: createStatement (no statement), the bind of
\* statement.cancel (only reached with a cancelObj; the statement exists,
\* nothing is bound), setQueryTimeout (the statement exists, untimed and not
\* executed), executeQuery (the statement is timed and the query was run).
executeStatement(c, sql, withCancelObj, holder, failAt, err) ==
  LET created == Statement(c, sql, withCancelObj, holder)
      timed == [created EXCEPT !.timeout = QueryTimeout]
      ran == executeQuery(timed)
  IN CASE failAt = "createStatement" ->
            [made |-> <<>>, bound |-> FALSE, completion |-> Throw(err)]
       [] failAt = "bind" /\ withCancelObj ->
            [made |-> <<created>>, bound |-> FALSE, completion |-> Throw(err)]
       [] failAt = "setQueryTimeout" ->
            [made |-> <<created>>, bound |-> withCancelObj, completion |-> Throw(err)]
       [] failAt = "executeQuery" ->
            [made |-> <<ran>>, bound |-> withCancelObj, completion |-> Throw(err)]
       [] OTHER ->
            [made |-> <<ran>>, bound |-> withCancelObj, completion |-> Return(RowSet)]

\* What fn(conn) of withConnection may do.
FnOutcomes == {Return(RowSet), Throw(FnError), Throw(Val("Native", "wrapped native failure", "syntax error"))}

Outcomes ==
  {<<"none", NoVal>>} \cup (NativeFailPoints \X NativeErrors) \cup {<<"bind", BindTypeError>>}

\* One step of the try block after acquire resolved: the next preparatory
\* statement, or the target statement (queryPromised); fn(conn) (withConnection).
\* A statement that was executed leaves the query awaiting the promise of
\* toObjArrayAsync(), which the native layer settles through its callback.
RunStatement(q) ==
  /\ pc[q] = "acquired"
  /\ IF kind[q] = "query"
     THEN LET prep == OptionsPrepareConnectionQueries(QueryOptions(driver.config))
              i == Len(stmts[q])
          IN \E o \in Outcomes :
               IF i < Len(prep)
               THEN LET r == executeStatement(conn[q], prep[i + 1], FALSE,
                                              loanedTo[conn[q]], o[1], o[2])
                    IN /\ stmts' = [stmts EXCEPT ![q] = @ \o r.made]
                       /\ IF r.completion.type = "throw"
                          THEN /\ pending' = [pending EXCEPT ![q] = r.completion]
                               /\ pc' = [pc EXCEPT ![q] = "executed"]
                          ELSE /\ pc' = [pc EXCEPT ![q] = "converting"]
                               /\ UNCHANGED pending
                       /\ UNCHANGED cancelObj
               ELSE LET r == executeStatement(conn[q], MainSql, TRUE,
                                              loanedTo[conn[q]], o[1], o[2])
                    IN /\ stmts' = [stmts EXCEPT ![q] = @ \o r.made]
                       /\ cancelObj' = [cancelObj EXCEPT ![q] =
                                          IF r.bound THEN Len(stmts[q]) + 1 ELSE @]
                       /\ IF r.completion.type = "throw"
                          THEN /\ pending' = [pending EXCEPT ![q] = r.completion]
                               /\ pc' = [pc EXCEPT ![q] = "executed"]
                          ELSE /\ pc' = [pc EXCEPT ![q] = "converting"]
                               /\ UNCHANGED pending
     ELSE /\ \E o \in FnOutcomes : pending' = [pending EXCEPT ![q] = o]
          /\ pc' = [pc EXCEPT ![q] = "executed"]
          /\ UNCHANGED <<stmts, cancelObj>>
  /\ UNCHANGED <<input, driver, kind, conn, result, ret, cancelLog, releases, health,
                 poolVars, facadeVars, hookVars>>

\* What settles the promise of toObjArrayAsync(): the rows, or the error the
\* native layer called back with or threw.
RowsOutcomes == {NoVal} \cup NativeErrors

\* The native layer answers for the statement just executed: the awaited
\* promise of executeStatement is fulfilled with the rows or rejected with
\* an error.  With the rows the loop goes on after a preparatory statement
\* and the try block returns them after the target statement; an error
\* leaves the try block.
RowsDelivered(q) ==
  /\ pc[q] = "converting"
  /\ \E o \in RowsOutcomes :
       LET prep == OptionsPrepareConnectionQueries(QueryOptions(driver.config))
       IN IF o # NoVal
          THEN /\ pc' = [pc EXCEPT ![q] = "executed"]
               /\ pending' = [pending EXCEPT ![q] = Throw(o)]
          ELSE IF Len(stmts[q]) <= Len(prep)
               THEN /\ pc' = [pc EXCEPT ![q] = "acquired"]
                    /\ UNCHANGED pending
               ELSE /\ pc' = [pc EXCEPT ![q] = "executed"]
                    /\ pending' = [pending EXCEPT ![q] = Return(RowSet)]
  /\ UNCHANGED <<input, driver, kind, conn, result, stmts, cancelObj, ret, cancelLog,
                 releases, health, poolVars, facadeVars, hookVars>>

\* A release placed after the statements instead of in a finally: skipped on failure.
ReleaseOnSuccessOnly(q) ==
  /\ pc[q] = "executed"
  /\ IF pending[q].type = "return"
     THEN PoolRelease(conn[q]) /\ releases' = [releases EXCEPT ![q] = @ + 1]
     ELSE UNCHANGED <<poolState, loanedTo, releases>>
  /\ pc' = [pc EXCEPT ![q] = "released"]
  /\ UNCHANGED <<input, driver, kind, conn, pending, result, stmts, cancelObj, ret,
                 cancelLog, health, open, waiting, draining, openedWith, facadeVars,
                 hookVars>>

\* A release issued right after the acquire, before the statements have run.
ReleaseBeforeUse(q) ==
  /\ pc[q] = "acquired"
  /\ releases[q] = 0
  /\ PoolRelease(conn[q])
  /\ releases' = [releases EXCEPT ![q] = @ + 1]
  /\ UNCHANGED <<input, driver, kind, pc, conn, pending, result, stmts, cancelObj, ret,
                 cancelLog, health, open, waiting, draining, openedWith, facadeVars,
                 hookVars>>

\* An acquire placed inside the try: the finally calls pool.release also when
\* the acquire failed.
ReleaseAlsoAfterFailedAcquire(q) ==
  /\ pc[q] \in {"executed", "acquireFailed"}
  /\ releases[q] = 0
  /\ IF pc[q] = "executed"
     THEN PoolRelease(conn[q])
     ELSE UNCHANGED <<poolState, loanedTo>>
  /\ releases' = [releases EXCEPT ![q] = @ + 1]
  /\ pc' = [pc EXCEPT ![q] = "released"]
  /\ UNCHANGED <<input, driver, kind, conn, pending, result, stmts, cancelObj, ret,
                 cancelLog, health, open, waiting, draining, openedWith, facadeVars,
                 hookVars>>

\* finally { await this.pool.release(conn) }
Release(q) ==
  /\ pc[q] = "executed"
  /\ PoolRelease(conn[q])
  /\ releases' = [releases EXCEPT ![q] = @ + 1]
  /\ pc' = [pc EXCEPT ![q] = "released"]
  /\ UNCHANGED <<input, driver, kind, conn, pending, result, stmts, cancelObj, ret,
                 cancelLog, health, open, waiting, draining, openedWith, facadeVars,
                 hookVars>>

\* A catch that rewraps whatever was thrown in a new plain error.
TranslateRewrapsAll(ex) ==
  Val("Error", IF ex.cause # NoCause THEN ex.cause ELSE ex.message, NoCause)

\* catch (ex) { if (ex.cause) throw new Error(ex.cause.getMessage()); else throw ex }
Translate(ex) ==
  IF ex.cause # NoCause THEN Val("Error", ex.cause, NoCause) ELSE ex

Settled(kd, completion) ==
  IF completion.type = "throw"
  THEN [state |-> "rejected",
        value |-> IF kd = "query" THEN Translate(completion.value) ELSE completion.value]
  ELSE [state |-> "fulfilled", value |-> completion.value]

\* The call's promise settles: after the release, or after a failed acquire.
Settle(q) ==
  /\ pc[q] \in {"released", "acquireFailed"}
  /\ result' = [result EXCEPT ![q] = Settled(kind[q], pending[q])]
  /\ pc' = [pc EXCEPT ![q] = "settled"]
  /\ UNCHANGED <<input, driver, kind, conn, pending, stmts, cancelObj, ret, cancelLog,
                 releases, health, poolVars, facadeVars, hookVars>>

MainCreated(q) == \E i \in 1..Len(stmts[q]) : stmts[q][i].main
MainExecuted(q) == \E i \in 1..Len(stmts[q]) : stmts[q][i].main /\ stmts[q][i].executed

\* () => cancelObj.cancel && cancelObj.cancel() || Promise.reject(new Error('Statement is not ready'))
\* what it does given the statement index cancelObj.cancel is bound to.
promiseCancel(bound) == IF bound # 0 THEN "native cancel" ELSE "Statement is not ready"

CancelsMade == Cardinality({<<p, i>> \in Calls \X (1..MaxCancels) : i <= Len(cancelLog[p])})

\* The caller calls cancel() on the value query() handed back.
Cancel(q) ==
  /\ kind[q] = "query"
  /\ Started(q)
  /\ CancelsMade < MaxCancels
  /\ LET outcome == IF "cancel" \in ret[q].props
                    THEN promiseCancel(cancelObj[q])
                    ELSE "TypeError: cancel is not a function"
     IN /\ cancelLog' = [cancelLog EXCEPT ![q] =
                           Append(@, [created |-> MainCreated(q),
                                      executed |-> MainExecuted(q),
                                      outcome |-> outcome])]
        /\ stmts' = IF outcome = "native cancel"
                    THEN [stmts EXCEPT ![q][cancelObj[q]].cancels = @ + 1]
                    ELSE stmts
  /\ UNCHANGED <<input, driver, kind, pc, conn, pending, result, cancelObj, ret,
                 releases, health, poolVars, facadeVars, hookVars>>

\* A release() that calls pool.clear() without draining the pool first.
DriverReleaseClearOnly ==
  /\ driver.outcome = "ready"
  /\ shutdown = "ready"
  /\ shutdown' = "clearing"
  /\ PoolClear
  /\ UNCHANGED <<input, driver, callVars, loanedTo, waiting, draining, openedWith,
                 jdbcProps, propsBuilt, hookVars>>

\* release(), up to its await of pool.drain(): the pool starts draining.
DriverRelease ==
  /\ driver.outcome = "ready"
  /\ shutdown = "ready"
  /\ shutdown' = "draining"
  /\ draining' = TRUE
  /\ UNCHANGED <<input, driver, callVars, poolState, loanedTo, open, waiting,
                 openedWith, jdbcProps, propsBuilt, hookVars>>

\* A release() that does not await pool.drain() before pool.clear().
DriverReleaseClearUnawaited ==
  /\ shutdown = "draining"
  /\ shutdown' = "clearing"
  /\ PoolClear
  /\ UNCHANGED <<input, driver, callVars, loanedTo, waiting, draining, openedWith,
                 jdbcProps, propsBuilt, hookVars>>

\* release() resumes when the promise of pool.drain() has resolved and
\* calls pool.clear().
DriverReleaseClear ==
  /\ shutdown = "draining"
  /\ Drained
  /\ shutdown' = "clearing"
  /\ PoolClear
  /\ UNCHANGED <<input, driver, callVars, loanedTo, waiting, draining, openedWith,
                 jdbcProps, propsBuilt, hookVars>>

\* The promise of pool.clear() resolved: release() completes.
DriverReleaseSettle ==
  /\ shutdown = "clearing"
  /\ shutdown' = "released"
  /\ UNCHANGED <<input, driver, callVars, poolVars, jdbcProps, propsBuilt, hookVars>>

\* The pool calls the validate hook on a connection whose liveness probe
\* answers true or false or throws.
Validate ==
  /\ driver.pool
  /\ \E probe \in Probes :
       lastValidate' = [probe |-> probe, returned |-> validateHook(probe)]
  /\ UNCHANGED <<input, driver, callVars, poolVars, facadeVars, lastDestroy>>

\* The pool calls the destroy hook on a connection whose close() returns or
\* throws.
Destroy ==
  /\ driver.pool
  /\ \E closeThrows \in BOOLEAN : lastDestroy' = destroySettles(closeThrows)
  /\ UNCHANGED <<input, driver, callVars, poolVars, facadeVars, lastValidate>>

\* new JDBCDriver(config)
Construct ==
  /\ driver.outcome = "unconstructed"
  /\ driver' = Constructor(input.arg, input.env)
  /\ \E connects \in [1..MinimumAtStart(driver') -> BOOLEAN] :
       LET start == PoolAtStart(driver', connects)
       IN /\ poolState' = start.poolState
          /\ open' = start.open
          /\ openedWith' = start.openedWith
          /\ jdbcProps' = start.jdbcProps
          /\ propsBuilt' = start.propsBuilt
  /\ UNCHANGED <<input, callVars, loanedTo, waiting, draining, shutdown, hookVars>>

Next ==
  \/ \E q \in Calls : Query(q)
  \/ \E q \in Calls : WithConnection(q)
  \/ \E q \in Calls : RunStatement(q)
  \/ \E q \in Calls : RowsDelivered(q)
  \/ \E q \in Calls : Release(q)
  \/ \E q \in Calls : Settle(q)
  \/ \E q \in Calls : Cancel(q)
  \/ PoolCreate
  \/ \E c \in ConnIds : PoolBorrow(c)
  \/ \E q \in Calls : PoolAcquireTimeout(q)
  \/ DriverRelease
  \/ DriverReleaseClear
  \/ DriverReleaseSettle

Spec == Init /\ [][Next]_vars

\* The calls and the pool in runs where the caller never calls cancel().
NextCalls ==
  \/ \E q \in Calls : Query(q)
  \/ \E q \in Calls : WithConnection(q)
  \/ \E q \in Calls : RunStatement(q)
  \/ \E q \in Calls : RowsDelivered(q)
  \/ \E q \in Calls : Release(q)
  \/ \E q \in Calls : Settle(q)
  \/ PoolCreate
  \/ \E c \in ConnIds : PoolBorrow(c)
  \/ \E q \in Calls : PoolAcquireTimeout(q)

CallsSpec == Init /\ [][NextCalls]_vars

\* Queries and the pool in runs where release() may be called at any moment.
NextShutdown ==
  \/ \E q \in Calls : Query(q)
  \/ \E q \in Calls : RunStatement(q)
  \/ \E q \in Calls : RowsDelivered(q)
  \/ \E q \in Calls : Release(q)
  \/ \E q \in Calls : Settle(q)
  \/ PoolCreate
  \/ \E c \in ConnIds : PoolBorrow(c)
  \/ \E q \in Calls : PoolAcquireTimeout(q)
  \/ DriverRelease
  \/ DriverReleaseClear
  \/ DriverReleaseSettle

ShutdownSpec == Init /\ [][NextShutdown]_vars

\* Queries and the pool under fair scheduling.
NextQueries ==
  \/ \E q \in Calls : Query(q)
  \/ \E q \in Calls : RunStatement(q)
  \/ \E q \in Calls : RowsDelivered(q)
  \/ \E q \in Calls : Release(q)
  \/ \E q \in Calls : Settle(q)
  \/ PoolCreate
  \/ \E c \in ConnIds : PoolBorrow(c)
  \/ \E q \in Calls : PoolAcquireTimeout(q)
  \/ PoolForget

\* The event loop runs every continuation that is ready: the step of a call
\* after its acquire resolved, its finally once the awaited promise has
\* settled, and the settling of its own promise.  The pool dispatches while
\* requests wait, and an armed timer fires: PoolAcquireTimeout is enabled
\* only for a pool created with a positive acquireTimeoutMillis.  Nothing
\* obliges a caller to start a query, and nothing in the code obliges the
\* native layer to call back with the rows: RowsDelivered is not in here.
Fairness ==
  /\ \A q \in Calls : WF_vars(RunStatement(q))
  /\ \A q \in Calls : WF_vars(Release(q))
  /\ \A q \in Calls : WF_vars(Settle(q))
  /\ \A q \in Calls : WF_vars(PoolAcquireTimeout(q))
  /\ WF_vars(PoolCreate)
  /\ \A c \in ConnIds : WF_vars(PoolBorrow(c))
  /\ WF_vars(PoolForget)

\* The runs under fair scheduling start from the pools of one that validate
\* on borrow and can open connections: the one created with the default
\* acquireTimeoutMillis and the one created with acquireTimeoutMillis: 0.
InitLive ==
  /\ Init
  /\ driver.poolMax = Num(1)
  /\ driver.options["testOnBorrow"]
  /\ Get(driver.config, "properties") # Undefined

LiveSpec == InitLive /\ [][NextQueries]_vars /\ Fairness

\* Construction alone, over every argument and environment of CtorInputs.
Opt(k, vals) == {EmptyObj} \cup {[x \in {k} |-> v] : v \in vals}
CtorObjects ==
  { Spread(Spread(Spread(Spread(a, b), c), d), e) :
      a \in Opt("dbType", {"mysql", "nodb", "constructor", "__defineGetter__"}),
      b \in Opt("url", {"", "jdbc:cfg"}),
      c \in Opt("drivername", {"", "cfg.Driver"}),
      d \in Opt("prepareConnectionQueries", {JsUndefined, EmptyString}),
      e \in Opt("poolOptions",
                {[max |-> Num(1), min |-> Num(1)],
                 [acquireTimeoutMillis |-> Num(0), testOnBorrow |-> FALSE]}) }
\* Values of CUBEJS_DB_MAX_POOL: "4", "10", "2abc", "-1", "+2", "0", "x",
\* " 3", "\r3", "\f3", NBSP then "3", "- 1", the empty string,
\* "9007199254740993" and "-9007199254740995".
MaxPoolStrings ==
  { <<52>>, <<49, 48>>, <<50, 97, 98, 99>>, <<45, 49>>, <<43, 50>>, <<48>>,
    <<120>>, <<32, 51>>, <<13, 51>>, <<12, 51>>, <<160, 51>>, <<45, 32, 49>>,
    <<>>,
    <<57, 48, 48, 55, 49, 57, 57, 50, 53, 52, 55, 52, 48, 57, 57, 51>>,
    <<45, 57, 48, 48, 55, 49, 57, 57, 50, 53, 52, 55, 52, 48, 57, 57, 53>> }
CtorEnvs ==
  { Spread(Spread(Spread(a, b), c), d) :
      a \in Opt("CUBEJS_DB_TYPE", {"mysql"}),
      b \in Opt("CUBEJS_JDBC_URL", {"jdbc:env"}),
      c \in Opt("CUBEJS_JDBC_DRIVER", {"env.Driver"}),
      d \in Opt("CUBEJS_DB_MAX_POOL", MaxPoolStrings) }
CtorInputs ==
  [arg : {NullArg, UndefinedArg} \cup {ObjArg(o) : o \in CtorObjects}, env : CtorEnvs]

InitCtor ==
  /\ input \in CtorInputs
  /\ driver = Unconstructed
  /\ InitCalls
  /\ InitPool
  /\ InitFacade
  /\ InitHooks

CtorSpec == InitCtor /\ [][Construct]_vars

\* Construction, then the pool's calls of the validate and destroy hooks.
NextHooks ==
  \/ Construct
  \/ Validate
  \/ Destroy

HooksSpec == InitCtor /\ [][NextHooks]_vars


\* ------------------------------------------------------------------ claims
Acquired(q) == conn[q] # 0
Holding(q) == pc[q] \in {"acquired", "converting", "executed"}
AllSettled == \A q \in Calls : Started(q) => pc[q] = "settled"

\* C1: a call whose acquire succeeded releases its connection exactly once,
\* on success and on failure, before its promise settles; once every started
\* call has settled no connection is on loan.
C1_ReleasedExactlyOnce ==
  /\ \A q \in Calls :
       /\ releases[q] <= 1
       /\ releases[q] = 1 => Acquired(q)
       /\ result[q].state # "pending" => pc[q] = "settled"
       /\ (pc[q] = "settled" /\ Acquired(q)) =>
             (releases[q] = 1 /\ \A c \in ConnIds : loanedTo[c] # q)
  /\ AllSettled => Loaned = {}

\* A query that failed and a withConnection call, both settled after one release each.
C1_Witness ==
  \E q1, q2 \in Calls :
    /\ kind[q1] = "query" /\ kind[q2] = "withConnection"
    /\ pc[q1] = "settled" /\ pc[q2] = "settled"
    /\ Acquired(q1) /\ Acquired(q2)
    /\ result[q1].state = "rejected" /\ result[q2].state = "fulfilled"
    /\ releases[q1] = 1 /\ releases[q2] = 1

MaxInUse == Num(Cardinality(Loaned)) = driver.poolMax
NoneReleased == \A c \in ConnIds : poolState[c] = "loaned" => poolState'[c] = "loaned"

\* C2 as stated: open connections never exceed the pool's max, and a caller
\* waiting in acquire while max connections are in use stays waiting until
\* some connection is released.
C2_StaysSuspendedUntilRelease ==
  /\ [](~NumLess(driver.poolMax, Num(Cardinality(OpenConns))))
  /\ [][\A q \in Calls :
          (pc[q] = "acquiring" /\ MaxInUse /\ NoneReleased) => pc'[q] = "acquiring"]_vars

\* C2 amended: open connections never exceed the pool's max, and a caller
\* waiting in acquire while max connections are in use is given no connection:
\* it stays waiting, or its acquire fails with the acquire timeout.
C2_BoundedAndNotServed ==
  /\ [](~NumLess(driver.poolMax, Num(Cardinality(OpenConns))))
  /\ [][\A q \in Calls :
          (pc[q] = "acquiring" /\ MaxInUse /\ NoneReleased) =>
            (pc'[q] \in {"acquiring", "acquireFailed"} /\ conn'[q] = 0)]_vars

\* A caller waits in acquire while all max connections are on loan.
C2_Witness ==
  \E q \in Calls : pc[q] = "acquiring" /\ MaxInUse /\ q \in {waiting[i] : i \in 1..Len(waiting)}

\* C3: between acquire and release a connection is used by one call only: no
\* two calls in flight hold the same connection, and every statement was
\* created on the caller's own connection while it was on loan to the caller.
C3_ExclusiveUse ==
  /\ \A q1, q2 \in Calls :
       (q1 # q2 /\ Holding(q1) /\ Holding(q2)) => conn[q1] # conn[q2]
  /\ \A q \in Calls :
       /\ Holding(q) => (poolState[conn[q]] = "loaned" /\ loanedTo[conn[q]] = q)
       /\ \A i \in 1..Len(stmts[q]) :
            stmts[q][i].conn = conn[q] /\ stmts[q][i].heldBy = q

\* Two calls hold connections at the same time and one has run a statement.
C3_Witness ==
  \E q1, q2 \in Calls :
    q1 # q2 /\ Holding(q1) /\ Holding(q2) /\ Len(stmts[q1]) > 0

SqlOf(q) == [i \in 1..Len(stmts[q]) |-> stmts[q][i].sql]

\* C4: when a query has executed its target statement, every entry of
\* prepareConnectionQueries() was executed before it, in order, on the same
\* connection.
C4_PrepBeforeTarget ==
  \A q \in Calls :
    (kind[q] = "query" /\ MainExecuted(q)) =>
      /\ SqlOf(q) = prepareConnectionQueries(driver.config).items \o <<MainSql>>
      /\ \A i \in 1..Len(stmts[q]) : stmts[q][i].conn = conn[q]

\* C5: the value query() hands back carries the cancel operation.
C5_ReturnedCarriesCancel ==
  \A q \in Calls : kind[q] = "query" => "cancel" \in ret[q].props

\* C6: a cancel() called before the query's main statement was created fails
\* with 'Statement is not ready'.
C6_CancelBeforeStatement ==
  \A q \in Calls : \A i \in 1..Len(cancelLog[q]) :
    ~cancelLog[q][i].created => cancelLog[q][i].outcome = "Statement is not ready"

NativeCancels(q) ==
  Cardinality({i \in 1..Len(cancelLog[q]) : cancelLog[q][i].created})

\* C7: every cancel() called once the query's main statement exists invokes
\* the native cancel of that statement, once per call.
C7_CancelAfterStatement ==
  \A q \in Calls :
    /\ \A i \in 1..Len(cancelLog[q]) :
         cancelLog[q][i].created => cancelLog[q][i].outcome = "native cancel"
    /\ \A i \in 1..Len(stmts[q]) :
         stmts[q][i].cancels = IF stmts[q][i].main THEN NativeCancels(q) ELSE 0

\* C8: the step that creates a query's main statement leaves its executeQuery
\* still to complete, so that a cancel() can be processed in between.
C8_CancelRacesExecution ==
  [][\A q \in Calls : (~MainCreated(q) /\ MainCreated(q)') => ~MainExecuted(q)']_vars

FailedNatively(q) ==
  kind[q] = "query" /\ pc[q] = "settled" /\ pending[q].type = "throw"
  /\ pending[q].value.type = "Native"

\* C9: every native failure of a statement makes query() reject with a
\* plain error, never with the native object, and when the failure has a
\* cause the error's message is the cause's message.
C9_EveryNativeFailureUnwrapped ==
  \A q \in Calls :
    FailedNatively(q) =>
      /\ result[q].state = "rejected"
      /\ result[q].value.type = "Error"
      /\ pending[q].value.cause # NoCause => result[q].value.message = pending[q].value.cause

\* Explicit config over environment overrides over catalog defaults.
MergedField(arg, env, key, envKey, descField) ==
  LET obj == IF arg.kind = "object" THEN arg.obj ELSE EmptyObj
      dbType == Or(Get(obj, "dbType"), Get(env, "CUBEJS_DB_TYPE"))
  IN IF key \in DOMAIN obj THEN obj[key]
     ELSE Or(Get(env, envKey), DescField(dbType, descField))
ValidInput(arg, env) ==
  /\ ~Falsy(MergedField(arg, env, "drivername", "CUBEJS_JDBC_DRIVER", "driverClass"))
  /\ ~Falsy(MergedField(arg, env, "url", "CUBEJS_JDBC_URL", "jdbcUrl"))

\* C10: construction succeeds exactly when the merged drivername and url are
\* both non-empty; otherwise it throws and no pool is created.
C10_ConstructionIffValid ==
  driver.outcome # "unconstructed" =>
    /\ driver.outcome = "ready" <=> ValidInput(input.arg, input.env)
    /\ driver.outcome # "ready" => ~driver.pool

\* C11: once release() has completed the pool holds no idle connection and
\* nothing changes in it any more, and a query() started after that is
\* rejected by pool.acquire: it joins no queue and is given no connection.
C11_ReleasedPoolUnusable ==
  /\ [](shutdown = "released" => Idle = {})
  /\ [][shutdown = "released" =>
          /\ poolState' = poolState /\ open' = open /\ waiting' = waiting
          /\ \A q \in Calls :
               (pc[q] = "init" /\ pc'[q] # "init") =>
                 (pc'[q] = "acquireFailed" /\ pending'[q] = Throw(DrainingError))]_vars
  /\ [](\A q \in Calls :
          pending[q] = Throw(DrainingError) => (conn[q] = 0 /\ stmts[q] = <<>>))

\* release() has completed after a query used a connection, which is now
\* closed, and another query was rejected by the draining pool.
C11_Witness ==
  /\ shutdown = "released"
  /\ \E q1, q2 \in Calls :
       /\ pc[q1] = "settled" /\ Acquired(q1) /\ ~open[conn[q1]]
       /\ poolState[conn[q1]] = "destroyed"
       /\ pc[q2] = "settled" /\ result[q2] = [state |-> "rejected", value |-> DrainingError]

\* C12: no connection is closed while a call holds it: a connection is closed
\* only when it is idle in the pool, and release() gets past pool.drain()
\* only when no connection is on loan and no request is waiting.
C12_DestroyAfterReturn ==
  /\ [](\A q \in Calls : Holding(q) => open[conn[q]])
  /\ [](\A c \in ConnIds : poolState[c] = "loaned" => open[c])
  /\ [][\A c \in ConnIds :
          (open[c] /\ ~open'[c]) => (poolState[c] = "idle" /\ loanedTo[c] = 0)]_vars
  /\ [](shutdown \in {"clearing", "released"} =>
          (Loaned = {} /\ waiting = <<>> /\ \A q \in Calls : ~Holding(q)))

\* release() has been called and waits in pool.drain() while a query that has
\* run a statement still holds its connection, which is open.
C12_Witness ==
  /\ shutdown = "draining"
  /\ \E q \in Calls : pc[q] = "executed" /\ Len(stmts[q]) > 0 /\ open[conn[q]]

\* testOnBorrow is in force: the pool was created with testOnBorrow: true.
TestOnBorrowInForce == driver.options["testOnBorrow"] = TRUE

\* C13: with testOnBorrow in force, a call is only ever given a connection
\* the validate hook accepted when it was borrowed, and statements are
\* created on such a connection only; a connection the hook refused is
\* closed and never lent again.
C13_NeverHandedInvalid ==
  /\ [](TestOnBorrowInForce =>
          \A q \in Calls : Acquired(q) => validateHook(health[q]))
  /\ [][TestOnBorrowInForce =>
          \A q \in Calls : stmts'[q] # stmts[q] => validateHook(health[q])]_vars
  /\ [][TestOnBorrowInForce =>
          \A c \in ConnIds :
            poolState[c] = "destroyed" => (poolState'[c] = "destroyed" /\ ~open'[c])]_vars

\* The only query started so far had its first connection refused by the
\* validate hook and destroyed, and has run its statement on the second one.
C13_Witness ==
  \E q \in Calls :
    /\ TestOnBorrowInForce
    /\ \A p \in Calls : p # q => pc[p] = "init"
    /\ kind[q] = "query" /\ pc[q] = "executed" /\ MainExecuted(q)
    /\ conn[q] = 2 /\ health[q] = "true"
    /\ poolState[1] = "destroyed" /\ ~open[1]

TimedOut(q) == pc[q] = "settled" /\ pending[q] = Throw(TimeoutError)

\* C14: a query() whose pool.acquire timed out rejects with the pool's
\* timeout error itself; no query that got a connection rejects with it.
C14_TimeoutPassedThrough ==
  \A q \in Calls :
    /\ (kind[q] = "query" /\ TimedOut(q)) =>
          (result[q] = [state |-> "rejected", value |-> TimeoutError] /\ ~Acquired(q))
    /\ (kind[q] = "query" /\ Acquired(q)) => result[q].value # TimeoutError

\* A query was rejected with the timeout error while the pool's only
\* connection is on loan to another call.
C14_Witness ==
  \E q1, q2 \in Calls :
    /\ kind[q1] = "query" /\ TimedOut(q1) /\ result[q1].value.type = "TimeoutError"
    /\ Holding(q2) /\ MaxInUse

AcquireFailed(q) == ~Acquired(q) /\ pending[q].type = "throw"

\* The native layer calls back with the rows of every statement it ran: while
\* some query awaits its rows, one of the awaited callbacks arrives.
RowsFairness == WF_vars(\E q \in Calls : RowsDelivered(q))
\* The pool was created with a positive acquireTimeoutMillis.
AcquireTimeoutInForce == Positive(driver.options["acquireTimeoutMillis"])
LeavesAcquireServedOrFailed ==
  \A q \in Calls :
    (pc[q] = "acquiring" /\ pc'[q] # "acquiring") => (Acquired(q)' \/ AcquireFailed(q)')

\* C15 as stated: under fair scheduling, the native layer answering every
\* statement, every started query eventually settles: from some moment on
\* every query that was started is settled.  A query leaves pool.acquire only
\* served or failed, so none waits there forever.
C15_EveryQuerySettles ==
  /\ RowsFairness => <>[]AllSettled
  /\ [][LeavesAcquireServedOrFailed]_vars

\* The pool refuses at validation a connection it was about to lend.
BorrowRefused ==
  \E c \in ConnIds : poolState[c] = "idle" /\ poolState'[c] = "destroyed"

\* C15 amended: under fair scheduling, the native layer answering every
\* statement, every started query eventually settles when the pool was
\* created with a positive acquireTimeoutMillis; with the timer switched off
\* every started query eventually settles (a waiting one is served by a
\* returned or a new connection) unless the pool refuses connections at
\* validation again and again.  A query leaves pool.acquire only served or
\* failed.
C15_SettlesWhenTimed ==
  /\ RowsFairness => <>[](AcquireTimeoutInForce => AllSettled)
  /\ RowsFairness => ([]<><<BorrowRefused>>_vars \/ <>[]AllSettled)
  /\ [][LeavesAcquireServedOrFailed]_vars

\* A query waits in the queue of a pool of one that arms the acquire timer
\* and whose connection another query has just returned.
C15_Witness ==
  \E q1, q2 \in Calls :
    /\ driver.poolMax = Num(1) /\ AcquireTimeoutInForce
    /\ pc[q1] = "released" /\ poolState[conn[q1]] = "idle"
    /\ pc[q2] = "acquiring" /\ waiting = <<q2>>

\* C16: the destroy hook swallows a failure of close(): whenever the hook
\* was called its promise was fulfilled, also when close() threw.
C16_DestroySwallowsCloseFailure ==
  lastDestroy.close # "none" => lastDestroy.hook = "fulfilled"

\* C17: the validate hook returns a boolean for every outcome of the
\* liveness probe: the probe's answer, and false when the probe threw.
C17_ValidateNeverThrows ==
  lastValidate.probe # "none" =>
    /\ lastValidate.returned \in BOOLEAN
    /\ lastValidate.returned = (lastValidate.probe = "true")
    /\ lastValidate.probe = "throws" => lastValidate.returned = FALSE

\* The validate hook was called on a connection whose probe threw, and
\* returned false.
C17_Witness ==
  lastValidate = [probe |-> "throws", returned |-> FALSE]

Opened == {c \in ConnIds : openedWith[c] # NotOpened}

\* C18: getJdbcProperties() returns at most once on one driver, and every
\* connection was opened with the configured url and that one properties
\* object, which this.jdbcProps still holds.
C18_PropertiesBuiltOnce ==
  /\ propsBuilt <= 1
  /\ jdbcProps = propsBuilt
  /\ \A c \in ConnIds : poolState[c] # "absent" <=> c \in Opened
  /\ \A c \in Opened :
       openedWith[c] = [url |-> driver.config["url"], props |-> 1] /\ jdbcProps = 1

\* Two connections have been opened and the properties were built once.
C18_Witness ==
  /\ propsBuilt = 1
  /\ \E c1, c2 \in Opened : c1 # c2 /\ openedWith[c1] = openedWith[c2]

\* C19: every statement is created on its call's connection by the step that
\* uses it; a statement on which executeQuery was called had its timeout of
\* 600 set by then and had that one executeQuery called on it, and no
\* statement has more than one; a step creates at most one statement and
\* leaves the earlier ones as they are.
C19_FreshTimedStatement ==
  /\ [](\A q \in Calls : \A i \in 1..Len(stmts[q]) :
          /\ stmts[q][i].conn = conn[q]
          /\ stmts[q][i].executions <= 1
          /\ stmts[q][i].executed <=> stmts[q][i].executions = 1
          /\ stmts[q][i].executed =>
                (stmts[q][i].timeoutAtExecute = QueryTimeout
                 /\ stmts[q][i].timeout = QueryTimeout))
  /\ [][\A q \in Calls :
          /\ Len(stmts'[q]) \in {Len(stmts[q]), Len(stmts[q]) + 1}
          /\ \A i \in 1..Len(stmts[q]) : stmts'[q][i] = stmts[q][i]]_vars

\* Two queries have each executed their statement, one successfully and one
\* with a failure of executeQuery.
C19_Witness ==
  \E q1, q2 \in Calls :
    /\ q1 # q2
    /\ MainExecuted(q1) /\ pending[q1] = Return(RowSet)
    /\ MainExecuted(q2) /\ pending[q2].type = "throw"
    /\ stmts[q2][1].timeoutAtExecute = QueryTimeout

FailedAcquire(q) == pc[q] = "settled" /\ AcquireFailed(q)
FrameOfFailedAcquire(q) ==
  /\ releases[q] = 0 /\ stmts[q] = <<>> /\ cancelObj[q] = 0
  /\ result[q].state = "rejected"

\* C20 as stated: a call whose pool.acquire failed calls no release, creates
\* no statement, leaves the cancel handle unbound and rejects with the
\* acquire error; releases never exceed successful acquires.
C20_FailedAcquireRejectsWithError ==
  \A q \in Calls :
    /\ releases[q] <= (IF Acquired(q) THEN 1 ELSE 0)
    /\ FailedAcquire(q) =>
         (FrameOfFailedAcquire(q) /\ result[q].value = pending[q].value)

\* C20 amended: as stated, except that query() rejects with the acquire
\* error as its catch translates it: an acquire error that carries a cause
\* is replaced by a new plain error with the cause's message.
C20_FailedAcquireFrame ==
  \A q \in Calls :
    /\ releases[q] <= (IF Acquired(q) THEN 1 ELSE 0)
    /\ FailedAcquire(q) =>
         /\ FrameOfFailedAcquire(q)
         /\ result[q].value =
              IF kind[q] = "query" /\ pending[q].value.cause # NoCause
              THEN Val("Error", pending[q].value.cause, NoCause)
              ELSE pending[q].value

\* A query whose acquire failed because no connection could be opened has
\* rejected with the translated error, and a withConnection call whose
\* acquire failed the same way has rejected with the error itself.
C20_Witness ==
  \E q1, q2 \in Calls :
    /\ kind[q1] = "query" /\ FailedAcquire(q1) /\ pending[q1] = Throw(ConnectError)
    /\ result[q1].value = Val("Error", "connection refused", NoCause)
    /\ kind[q2] = "withConnection" /\ FailedAcquire(q2)
    /\ result[q2].value = ConnectError

====
